---- MODULE Spec2Model ----
(***************************************************************************)
(* Model of src/src/kerchunk_netcdf4.py: the prefix filter over a          *)
(* reference manifest (filter_unused_references and the preprocess         *)
(* function built by _drop_all_and_keep) and the metadata injection of     *)
(* generate_kerchunk_file_store.                                           *)
(*                                                                         *)
(* Python strings are sequences of one-character strings, so that          *)
(* str.startswith and str.split are computed, character by character.      *)
(* A dict is a sequence of <<key, value>> pairs in insertion order with    *)
(* pairwise distinct keys.                                                 *)
(***************************************************************************)
EXTENDS Integers, Sequences, FiniteSets, TLC

\* ------------------------------------------------------------------ bounds
\* Largest number of keys of a manifest.
MaxKeys == 3
\* Largest length of a keep or drop list given to _drop_all_and_keep.
MaxFields == 2
\* Largest number of filter applications in one run.
MaxCalls == 2
\* Largest length of final_netcdf_uri.
MaxUriLen == 3

\* ------------------------------------------------- module-level constants
\* _fields_whitelist as the module defines it.
WHITELIST ==
  << <<".","z","a","t","t","r","s">>,
     <<".","z","g","r","o","u","p">>,
     <<"b","y","t","e","s">>,
     <<"c","o","r","r","e","c","t","i","o","n","s">>,
     <<"i","d","e","n","t","i","f","i","c","a","t","i","o","n">>,
     <<"m","e","t","a","d","a","t","a">>,
     <<"n","e","t","c","d","f","_","u","r","i">>,
     <<"p","r","o","d","u","c","t","_","v","e","r","s","i","o","n">>,
     <<"r","e","f","e","r","e","n","c","e","_","d","a","t","e","t","i","m","e">>,
     <<"s","e","c","o","n","d","a","r","y","_","d","a","t","e","t","i","m","e">>,
     <<"s","h","o","r","t","_","w","a","v","e","l","e","n","g","t","h","_","d","i","s","p","l","a","c","e","m","e","n","t">>,
     <<"s","o","u","r","c","e","_","f","i","l","e","_","n","a","m","e">>,
     <<"s","p","a","t","i","a","l","_","r","e","f">>,
     <<"x">>,
     <<"y">> >>

\* _fields_blacklist as the module defines it.
BLACKLIST ==
  << <<"m","e","t","a","d","a","t","a","/","r","e","f","e","r","e","n","c","e","_","o","r","b","i","t","/","p","o","s","i","t","i","o","n">>,
     <<"m","e","t","a","d","a","t","a","/","r","e","f","e","r","e","n","c","e","_","o","r","b","i","t","/","t","i","m","e">>,
     <<"m","e","t","a","d","a","t","a","/","r","e","f","e","r","e","n","c","e","_","o","r","b","i","t","/","v","e","l","o","c","i","t","y">>,
     <<"m","e","t","a","d","a","t","a","/","s","e","c","o","n","d","a","r","y","_","o","r","b","i","t","/","p","o","s","i","t","i","o","n">>,
     <<"m","e","t","a","d","a","t","a","/","s","e","c","o","n","d","a","r","y","_","o","r","b","i","t","/","t","i","m","e">>,
     <<"m","e","t","a","d","a","t","a","/","s","e","c","o","n","d","a","r","y","_","o","r","b","i","t","/","v","e","l","o","c","i","t","y">> >>

\* ------------------------------------------------------------------ inputs
\* Keys a manifest is drawn from: the root group descriptor, a coordinate
\* chunk, the time coordinate and the test's remove_me variable (neither is
\* whitelisted), an orbit array (whitelisted through "metadata" and
\* blacklisted), a metadata attribute key, and a displacement chunk.
K_zgroup == <<".","z","g","r","o","u","p">>
K_x0 == <<"x","/","0">>
K_time0 == <<"t","i","m","e","/","0">>
K_remove_me0 == <<"r","e","m","o","v","e","_","m","e","/","0">>
K_orbit_time0 == <<"m","e","t","a","d","a","t","a","/","r","e","f","e","r","e","n","c","e","_","o","r","b","i","t","/","t","i","m","e","/","0">>
K_metadata_zattrs == <<"m","e","t","a","d","a","t","a","/",".","z","a","t","t","r","s">>
K_swd000 == <<"s","h","o","r","t","_","w","a","v","e","l","e","n","g","t","h","_","d","i","s","p","l","a","c","e","m","e","n","t","/","0",".","0",".","0">>

KEYS == {K_zgroup, K_x0, K_time0, K_remove_me0, K_orbit_time0, K_metadata_zattrs, K_swd000}

\* Prefixes the keep and drop lists given to _drop_all_and_keep are drawn from.
P_metadata == <<"m","e","t","a","d","a","t","a">>
P_orbit_time == <<"m","e","t","a","d","a","t","a","/","r","e","f","e","r","e","n","c","e","_","o","r","b","i","t","/","t","i","m","e">>

PREFIXES == {P_metadata, P_orbit_time}

\* Keys of the manifests the closures of _drop_all_and_keep are applied to: one
\* that matches no prefix of PREFIXES, one that matches both, one that matches
\* "metadata" alone, and one only the module whitelist keeps.
POLICY_KEYS == {K_time0, K_orbit_time0, K_metadata_zattrs, K_zgroup}

\* Sequences over S of length at most n.
SeqUpTo(S, n) == UNION {[1..m -> S] : m \in 0..n}

\* Sequences over S without repetition, of length at most n.
InjSeqUpTo(S, n) == {s \in SeqUpTo(S, n) : \A i, j \in 1..Len(s) : i # j => s[i] # s[j]}

\* The reference stored under the i-th key of an input manifest: a remote
\* reference [url, offset, length], a different one for each key.
RefAt(i) == <<"s3://bucket/file.nc", 100 * i, 100>>

\* ------------------------------------------------------------------- state
VARIABLES
  data,              \* the store dict: [version, refs], refs an object id
  heap,              \* object id -> the dict stored there
  fields_whitelist,  \* module variable _fields_whitelist
  fields_blacklist,  \* module variable _fields_blacklist
  key_fields_only,   \* the closure _drop_all_and_keep returned, or NoClosure
  ret,               \* what the last call returned: an object id, or None
  err,               \* the exception that ended the run, or "none"
  applied,           \* history: one record per filter application
  args,              \* generate_kerchunk_file_store's arguments, or None
  h5,                \* the netcdf file it opens, or None
  zarr_store,        \* the zarr group over h5_chunks.store: name -> array
  result             \* what generate_kerchunk_file_store returned, or None

filter_vars == <<data, heap, fields_whitelist, fields_blacklist, key_fields_only, ret, applied>>
store_vars == <<args, h5, zarr_store, result>>
vars == <<filter_vars, err, store_vars>>

\* Python's None, as a return value.
None == "None"
\* No closure, no call, no file, no result yet.
NoClosure == [made |-> FALSE]
Absent == [absent |-> TRUE]
\* The identity of the dict data["refs"] names.
RefsId == "refs@1"

\* ------------------------------------------------------------ str and dict
\* str.startswith
startswith(k, field) ==
  /\ Len(field) <= Len(k)
  /\ \A i \in 1..Len(field) : k[i] = field[i]

\* list(refs): the keys in insertion order
list(refs) == [i \in 1..Len(refs) |-> refs[i][1]]

\* The set of keys of a dict.
keys(refs) == {refs[i][1] : i \in 1..Len(refs)}

\* refs[k]
getitem(refs, k) == refs[CHOOSE i \in 1..Len(refs) : refs[i][1] = k][2]

\* The dict without key k.
RECURSIVE delitem(_, _)
delitem(refs, k) ==
  IF refs = <<>> THEN <<>>
  ELSE IF Head(refs)[1] = k THEN Tail(refs)
  ELSE <<Head(refs)>> \o delitem(Tail(refs), k)

\* dict.pop(k) with no default: removes k, and raises KeyError when k is absent.
pop(refs, k) ==
  IF k \in keys(refs)
  THEN [refs |-> delitem(refs, k), raised |-> FALSE]
  ELSE [refs |-> refs, raised |-> TRUE]

\* ------------------------------------------------------------- the filters
\* The inner loop over the keep list: keep is set when a prefix matches.
keep_flag(k, fields) == \E j \in 1..Len(fields) : startswith(k, fields[j])

\* The loop over the drop list, from its j-th field on: every matching field
\* pops k; an exception ends the loop.
RECURSIVE drop_loop(_, _, _, _)
drop_loop(refs, k, fields, j) ==
  IF j > Len(fields) THEN [refs |-> refs, raised |-> FALSE]
  ELSE IF startswith(k, fields[j])
       THEN LET r == pop(refs, k)
            IN IF r.raised THEN r ELSE drop_loop(r.refs, k, fields, j + 1)
       ELSE drop_loop(refs, k, fields, j + 1)

\* One iteration of the outer loop, for key k.
key_iteration(refs, k, keepf, dropf) ==
  LET r == IF ~keep_flag(k, keepf) THEN pop(refs, k)
           ELSE [refs |-> refs, raised |-> FALSE]
  IN IF r.raised THEN r ELSE drop_loop(r.refs, k, dropf, 1)

\* Mutant of key_loop: the loop walks the live key list, so that the key
\* after a removed one is skipped.
RECURSIVE key_loop_skipping(_, _, _, _, _)
key_loop_skipping(refs, ks, i, keepf, dropf) ==
  IF i > Len(ks) THEN [refs |-> refs, raised |-> FALSE]
  ELSE LET r == key_iteration(refs, ks[i], keepf, dropf)
       IN IF r.raised THEN r
          ELSE key_loop_skipping(r.refs, ks,
                 IF ks[i] \in keys(r.refs) THEN i + 1 ELSE i + 2, keepf, dropf)

\* The outer loop over the snapshot ks of the keys, from its i-th key on.
RECURSIVE key_loop(_, _, _, _, _)
key_loop(refs, ks, i, keepf, dropf) ==
  IF i > Len(ks) THEN [refs |-> refs, raised |-> FALSE]
  ELSE LET r == key_iteration(refs, ks[i], keepf, dropf)
       IN IF r.raised THEN r ELSE key_loop(r.refs, ks, i + 1, keepf, dropf)

\* Mutant of filter_unused_references: the loop over the blacklist is missing.
filter_unused_references_no_blacklist(refs, whitelist, blacklist) ==
  key_loop(refs, list(refs), 1, whitelist, <<>>)

\* filter_unused_references(data), on the dict data["refs"] names.
filter_unused_references(refs, whitelist, blacklist) ==
  key_loop(refs, list(refs), 1, whitelist, blacklist)

\* Mutant of preproc: the loop over fields_to_drop is missing.
preproc_drop_unkept_only(refs, fields_to_keep, fields_to_drop) ==
  key_loop(refs, list(refs), 1, fields_to_keep, <<>>)

\* preproc(refs) of the closure over fields_to_keep and fields_to_drop.
preproc(refs, fields_to_keep, fields_to_drop) ==
  key_loop(refs, list(refs), 1, fields_to_keep, fields_to_drop)

\* _drop_all_and_keep: the closure it returns.
drop_all_and_keep(fields_to_keep, fields_to_drop) ==
  [made |-> TRUE, fields_to_keep |-> fields_to_keep, fields_to_drop |-> fields_to_drop]

\* Mutant of preproc's return: a copy of the mapping (return dict(refs)).
preproc_return_copy(id) == "refs@2"

\* What preproc returns: the mapping object it was given (return refs).
preproc_return(id) == id

\* ------------------------------------------------- the zarr store of a file
\* The characters final_netcdf_uri is made of.
URI_CHARS == {"a", "b", "/"}

\* netcdf_product_version values.
VERSIONS == {"v0.0", "v1.2"}

\* File sizes in bytes (the test's mocked file reports 1000).
SIZES == {0, 1000}

\* Values of identification/reference_datetime and identification/secondary_datetime
\* as h5py reads them.
DATETIMES == {0, 86400}

\* The identification groups a file may hold: each timestamp present or not.
IDENTIFICATIONS ==
  UNION {[S -> DATETIMES] : S \in SUBSET {"reference_datetime", "secondary_datetime"}}

\* The arrays of the netcdf file itself, which translate() adds to the store.
FILE_ARRAYS == {"short_wavelength_displacement", "time", "x", "y"}

\* str.split(sep) for a one-character sep: the segments between separators.
RECURSIVE split(_, _)
split(s, sep) ==
  IF \A i \in 1..Len(s) : s[i] # sep THEN <<s>>
  ELSE LET i == CHOOSE j \in 1..Len(s) : s[j] = sep /\ \A m \in 1..(j - 1) : s[m] # sep
       IN <<SubSeq(s, 1, i - 1)>> \o split(SubSeq(s, i + 1, Len(s)), sep)

\* Mutant of source_file_name: the first segment instead of the last.
source_file_name_first(final_netcdf_uri) ==
  split(final_netcdf_uri, "/")[1]

\* source_file_name = final_netcdf_uri.split("/")[-1]
source_file_name(final_netcdf_uri) ==
  LET segs == split(final_netcdf_uri, "/") IN segs[Len(segs)]

\* The value an array of the given dtype holds for data: a str keeps the
\* string, a float the number (file sizes are far below 2^53, where every
\* integer is a float64), a datetime64[ns] the count of nanoseconds.
astype(value, dtype) ==
  CASE dtype = "str" -> [dtype |-> "str", value |-> value]
    [] dtype = "float" -> [dtype |-> "float", value |-> value]
    [] dtype = "datetime64[ns]" -> [dtype |-> "datetime64[ns]", value |-> value]

\* store.create_dataset(key, data=data, dtype=dtype): a new array with no
\* attributes.
create_dataset(store, key, value, dtype) ==
  (key :> [data |-> astype(value, dtype), attrs |-> <<>>]) @@ store

\* store[key].attrs[name] = value
set_attr(store, key, name, value) ==
  [store EXCEPT ![key].attrs = (name :> value) @@ store[key].attrs]

\* _add_data_variable(store, key, data, dtype)
add_data_variable(store, key, value, dtype) ==
  set_attr(create_dataset(store, key, value, dtype), key, "_ARRAY_DIMENSIONS", <<>>)

\* The six _add_data_variable calls of generate_kerchunk_file_store, in order.
inject(store, final_netcdf_uri, file_size, netcdf_product_version, reference_datetime, secondary_datetime) ==
  LET s1 == add_data_variable(store, "netcdf_uri", final_netcdf_uri, "str")
      s2 == add_data_variable(s1, "bytes", file_size, "float")
      s3 == add_data_variable(s2, "source_file_name",
                              source_file_name(final_netcdf_uri), "str")
      s4 == add_data_variable(s3, "product_version", netcdf_product_version, "str")
      s5 == add_data_variable(s4, "reference_datetime", reference_datetime,
                              "datetime64[ns]")
  IN add_data_variable(s5, "secondary_datetime", secondary_datetime, "datetime64[ns]")

\* h5_chunks.translate(): the store's arrays and those of the file.
translate(store, file) ==
  [version |-> 1,
   refs |-> store @@ [a \in file.arrays |->
                        [data |-> [dtype |-> "chunks", value |-> file.url],
                         attrs |-> ("_ARRAY_DIMENSIONS" :> <<a>>)]]]

\* ----------------------------------------------------------------- actions
ManifestsOver(K) ==
  {[i \in 1..Len(ks) |-> <<ks[i], RefAt(i)>>] : ks \in InjSeqUpTo(K, MaxKeys)}

\* No call of generate_kerchunk_file_store is part of the run.
StoreIdle ==
  /\ args = Absent
  /\ h5 = Absent
  /\ zarr_store = <<>>
  /\ result = Absent

InitOver(K) ==
  /\ data = [version |-> 1, refs |-> RefsId]
  /\ heap \in {[o \in {RefsId} |-> m] : m \in ManifestsOver(K)}
  /\ fields_whitelist = WHITELIST
  /\ fields_blacklist = BLACKLIST
  /\ key_fields_only = NoClosure
  /\ ret = None
  /\ err = "none"
  /\ applied = <<>>
  /\ StoreIdle

Init == InitOver(KEYS)

InitPolicy == InitOver(POLICY_KEYS)

Running == err = "none" /\ Len(applied) < MaxCalls

Record(fn, keepf, dropf, before, r) ==
  [fn |-> fn, keep |-> keepf, drop |-> dropf, before |-> before,
   after |-> r.refs, raised |-> r.raised]

\* filter_unused_references(data)
FilterUnusedReferences ==
  /\ Running
  /\ LET refs == heap[data.refs]
         r == filter_unused_references(refs, fields_whitelist, fields_blacklist)
     IN /\ heap' = [heap EXCEPT ![data.refs] = r.refs]
        /\ err' = IF r.raised THEN "KeyError" ELSE "none"
        /\ ret' = None
        /\ applied' = Append(applied,
             Record("filter_unused_references", fields_whitelist, fields_blacklist, refs, r))
  /\ UNCHANGED <<data, fields_whitelist, fields_blacklist, key_fields_only, store_vars>>

\* The keep and drop lists _drop_all_and_keep is called with: any lists over
\* PREFIXES, and the module lists (as generate_kerchunk_file_store_stack does).
Policies ==
  {<<keepf, dropf>> : keepf \in SeqUpTo(PREFIXES, MaxFields),
                      dropf \in SeqUpTo(PREFIXES, MaxFields)}
    \cup {<<fields_whitelist, fields_blacklist>>}

\* key_fields_only = _drop_all_and_keep(fields_to_keep, fields_to_drop)
DropAllAndKeep ==
  /\ Running
  /\ key_fields_only = NoClosure
  /\ applied = <<>>
  /\ \E p \in Policies : key_fields_only' = drop_all_and_keep(p[1], p[2])
  /\ UNCHANGED <<data, heap, fields_whitelist, fields_blacklist, ret, err, applied, store_vars>>

\* key_fields_only(data["refs"])
Preproc ==
  /\ Running
  /\ key_fields_only # NoClosure
  /\ LET refs == heap[data.refs]
         r == preproc(refs, key_fields_only.fields_to_keep, key_fields_only.fields_to_drop)
     IN /\ heap' = [heap EXCEPT ![data.refs] = r.refs]
        /\ err' = IF r.raised THEN "KeyError" ELSE "none"
        /\ ret' = IF r.raised THEN ret ELSE preproc_return(data.refs)
        /\ applied' = Append(applied,
             Record("preproc", key_fields_only.fields_to_keep,
                    key_fields_only.fields_to_drop, refs, r))
  /\ UNCHANGED <<data, fields_whitelist, fields_blacklist, key_fields_only, store_vars>>

\* generate_kerchunk_file_store_stack([data]): the preprocess step it hands to
\* MultiZarrToZarr, built from the module lists, applied to the input's refs.
GenerateKerchunkFileStoreStack ==
  /\ Running
  /\ LET refs == heap[data.refs]
         c == drop_all_and_keep(fields_whitelist, fields_blacklist)
         r == preproc(refs, c.fields_to_keep, c.fields_to_drop)
     IN /\ heap' = [heap EXCEPT ![data.refs] = r.refs]
        /\ err' = IF r.raised THEN "KeyError" ELSE "none"
        /\ ret' = IF r.raised THEN ret ELSE preproc_return(data.refs)
        /\ applied' = Append(applied,
             Record("generate_kerchunk_file_store_stack", c.fields_to_keep,
                    c.fields_to_drop, refs, r))
  /\ UNCHANGED <<data, fields_whitelist, fields_blacklist, key_fields_only, store_vars>>

\* The test's workflow on one store: filter_unused_references, then the stack's
\* preprocess, in any order and number up to MaxCalls.
Next ==
  \/ FilterUnusedReferences
  \/ GenerateKerchunkFileStoreStack

Spec == Init /\ [][Next]_vars

\* A closure of _drop_all_and_keep over any policy, applied up to MaxCalls
\* times, with filter_unused_references in between.
NextPolicy ==
  \/ DropAllAndKeep
  \/ Preproc
  \/ FilterUnusedReferences

SpecPolicy == InitPolicy /\ [][NextPolicy]_vars

\* The calls of generate_kerchunk_file_store: a final_netcdf_uri, a product
\* version and the file s3.open returns.
InitStore ==
  /\ data = [version |-> 1, refs |-> RefsId]
  /\ heap = [o \in {RefsId} |-> <<>>]
  /\ fields_whitelist = WHITELIST
  /\ fields_blacklist = BLACKLIST
  /\ key_fields_only = NoClosure
  /\ ret = None
  /\ err = "none"
  /\ applied = <<>>
  /\ args \in [final_netcdf_uri : SeqUpTo(URI_CHARS, MaxUriLen),
               netcdf_product_version : VERSIONS]
  /\ h5 \in [url : {"s3://bucket/in.nc"}, size : SIZES,
             identification : IDENTIFICATIONS, arrays : {FILE_ARRAYS}]
  /\ zarr_store = <<>>
  /\ result = Absent

\* generate_kerchunk_file_store(netcdf_uri, final_netcdf_uri, version): the
\* dataset lookups raise KeyError when the file lacks a timestamp.
GenerateKerchunkFileStore ==
  /\ err = "none"
  /\ args # Absent
  /\ result = Absent
  /\ IF {"reference_datetime", "secondary_datetime"} \ DOMAIN h5.identification # {}
     THEN /\ err' = "KeyError"
          /\ UNCHANGED <<zarr_store, result>>
     ELSE /\ zarr_store' = inject(zarr_store, args.final_netcdf_uri, h5.size,
                                  args.netcdf_product_version,
                                  h5.identification["reference_datetime"],
                                  h5.identification["secondary_datetime"])
          /\ result' = translate(zarr_store', h5)
          /\ err' = "none"
  /\ UNCHANGED <<filter_vars, args, h5>>

NextStore == GenerateKerchunkFileStore

SpecStore == InitStore /\ [][NextStore]_vars

\* ------------------------------------------------------------------ claims
\* p is a prefix of k.
IsPrefix(p, k) == Len(p) <= Len(k) /\ SubSeq(k, 1, Len(p)) = p

\* k starts with at least one prefix of the list.
MatchesAny(k, fields) == \E p \in {fields[j] : j \in 1..Len(fields)} : IsPrefix(p, k)

Applications == {applied[n] : n \in 1..Len(applied)}

\* C1: after filter_unused_references the keys left in data["refs"] are exactly
\* the original keys that start with some whitelist prefix and with no blacklist
\* prefix, whatever the order of the keys; the call does not raise.
C1_FilterKeepsWhitelistedNotBlacklisted ==
  \A n \in 1..Len(applied) :
    applied[n].fn = "filter_unused_references" =>
      /\ ~applied[n].raised
      /\ keys(applied[n].after) =
           {k \in keys(applied[n].before) :
              MatchesAny(k, WHITELIST) /\ ~MatchesAny(k, BLACKLIST)}
      /\ (n = Len(applied) => keys(heap[data.refs]) = keys(applied[n].after))

\* C1's case: a manifest with remove_me/0, a blacklisted orbit key and x/0 was
\* filtered, and only x/0 is left.
C1_Witness ==
  \E a \in Applications :
    /\ a.fn = "filter_unused_references"
    /\ keys(a.before) = {K_remove_me0, K_orbit_time0, K_x0}
    /\ keys(a.after) = {K_x0}

\* C2: in the mapping preproc returns, no key is left that starts with some
\* keep prefix and with some drop prefix.
C2_BlacklistPrecedence ==
  \A n \in 1..Len(applied) :
    (applied[n].fn = "preproc" /\ ~applied[n].raised) =>
      \A k \in keys(applied[n].before) :
        (MatchesAny(k, applied[n].keep) /\ MatchesAny(k, applied[n].drop)) =>
          /\ k \notin keys(applied[n].after)
          /\ (n = Len(applied) => k \notin keys(heap[data.refs]))

\* C2's case: a closure over lists that are not the module's returned, and a
\* key that matched a keep prefix and a drop prefix is gone while another key stays.
C2_Witness ==
  \E a \in Applications :
    /\ a.fn = "preproc"
    /\ ~a.raised
    /\ a.keep = <<P_metadata>>
    /\ a.drop = <<P_orbit_time>>
    /\ K_orbit_time0 \in keys(a.before)
    /\ K_orbit_time0 \notin keys(a.after)
    /\ K_metadata_zattrs \in keys(a.after)

\* C3: filtering never raises, for every manifest and every keep and drop list.
C3_FilterNeverRaises == err = "none"

\* C4: a second application of the same policy to the mapping a first
\* application returned removes nothing and returns the same mapping.
C4_Idempotent ==
  \A n \in 2..Len(applied) :
    (/\ applied[n].keep = applied[n - 1].keep
     /\ applied[n].drop = applied[n - 1].drop
     /\ ~applied[n - 1].raised) =>
      /\ ~applied[n].raised
      /\ applied[n].before = applied[n - 1].after
      /\ applied[n].after = applied[n - 1].after
      /\ (n = Len(applied) => heap[data.refs] = applied[n - 1].after)

\* C4's case: filter_unused_references removed a key, and the preprocess
\* function over the module lists was then applied to what it left.
C4_Witness ==
  /\ Len(applied) = 2
  /\ applied[1].fn = "filter_unused_references"
  /\ applied[2].fn = "preproc"
  /\ applied[2].keep = applied[1].keep
  /\ applied[2].drop = applied[1].drop
  /\ applied[1].after # applied[1].before
  /\ applied[2].after # <<>>

\* seg is the last "/"-separated segment of uri.
IsLastSegment(seg, uri) ==
  /\ \A i \in 1..Len(seg) : seg[i] # "/"
  /\ \/ seg = uri
     \/ \E n \in 1..Len(uri) :
          uri[n] = "/" /\ seg = [i \in 1..(Len(uri) - n) |-> uri[n + i]]

\* The six variables generate_kerchunk_file_store injects.
INJECTED ==
  {"netcdf_uri", "bytes", "source_file_name", "product_version",
   "reference_datetime", "secondary_datetime"}

C10_FilterOnlyRemoves ==
  /\ data = [version |-> 1, refs |-> RefsId]
  /\ DOMAIN heap = {RefsId}
  /\ fields_whitelist = WHITELIST
  /\ fields_blacklist = BLACKLIST
  /\ \A n \in 1..Len(applied) :
       /\ keys(applied[n].after) \subseteq keys(applied[n].before)
       /\ \A k \in keys(applied[n].after) :
            getitem(applied[n].after, k) = getitem(applied[n].before, k)
       /\ (n = Len(applied) => heap[data.refs] = applied[n].after)
       /\ ((n = Len(applied) /\ applied[n].fn = "preproc" /\ ~applied[n].raised) =>
             ret = data.refs)

\* C10's case: preproc returned after removing one key and retaining another.
C10_Witness ==
  /\ applied # <<>>
  /\ LET a == applied[Len(applied)]
     IN /\ a.fn = "preproc"
        /\ ~a.raised
        /\ a.after # <<>>
        /\ Len(a.after) < Len(a.before)
        /\ ret = RefsId

====
